---- MODULE Spec2Model ----
(***************************************************************************)
(* Model of cli/src/tunnels/dev_tunnels.rs.                                *)
(*                                                                         *)
(* Two parts share this module:                                            *)
(*  - the session manager (ActiveTunnelManager): the background reconnect  *)
(*    loop spawn_tunnel, the watch channel carrying EndpointState, the     *)
(*    close channel, the relay mutex, and a caller task running            *)
(*    start_tunnel, get_endpoint and kill (specifications Spec, FairSpec); *)
(*  - the identity allocator (DevTunnels): start_new_launcher_tunnel with  *)
(*    get_name_for_tunnel, create_tunnel, try_recycle_tunnel and the       *)
(*    pruning steps, against a management service whose answers are        *)
(*    nondeterministic (specification AllocSpec).                          *)
(***************************************************************************)
EXTENDS Integers, Sequences, FiniteSets, TLC

(* ------------------------------ bounds -------------------------------- *)

\* Publication ordinals saturate here (the loop itself is never stopped).
MaxPub == 3
\* Backoff.failures saturates here in the model.
MaxFailures == 3
\* Number of kill() calls the user task may issue on one manager.
MaxKills == 2
\* Remote tunnel ids are 1..MaxIds (two exist at most initially).
MaxIds == 4
\* Number of start_new_launcher_tunnel calls in one run.
MaxStarts == 2
\* Number of further callers of one provider's refresh_token.
MaxRefreshers == 2
\* Backoff.failures is a u32; the model gives it this many bits, so that
\* the counter reaches its largest value within the run.
FailuresWidth == 5
\* Largest Duration of the model, in seconds (Duration::MAX).
DurationLimit == 200

(* ------------------------- program constants -------------------------- *)

MAX_TUNNEL_NAME_LENGTH == 20
\* crate::constants::CONTROL_PORT
CONTROL_PORT == 31545
\* Backoff::new(Duration::from_secs(5), Duration::from_secs(120))
BASE_SECS == 5
MAX_SECS == 120

VARIABLES
    \* ---- ActiveTunnelManager / spawn_tunnel ----
    pc,              \* position of the background task in spawn_tunnel
    close_tx,        \* ActiveTunnelManager.close_tx is Some
    endpoint,        \* value held by the watch channel (EndpointState)
    rxChanged,       \* endpoint_rx has not yet seen the channel's version
    txDropped,       \* endpoint_tx was dropped (spawn_tunnel returned)
    lockHolder,      \* owner of the tokio Mutex around RelayTunnelHost
    handle,          \* state of the relay connection handle
    failures,        \* Backoff.failures
    provider,        \* which AccessTokenProvider the loop was given
    initial_token,   \* LookupAccessTokenProvider.initial_token is Some
    access_token,    \* token the last refresh_token() returned
    \* ---- caller task ----
    callerPc,        \* position of the caller task
    callerCtx,       \* "start": inside start_tunnel, "user": holds ActiveTunnel
    \* ---- history of the run (observations the properties read) ----
    pubCount,        \* number of successful sends on endpoint_tx (saturating)
    lastPub,         \* value of the latest successful send
    signalReleased,  \* number of times a close_tx sender was dropped
    killCalls,       \* number of kill() calls begun
    killRet,         \* results of the kill() calls that returned, in order
    unregisterCalls, \* number of RelayTunnelHost::unregister calls completed
    geRet,           \* result of the last get_endpoint() that returned
    geLatest,        \* lastPub at the moment that get_endpoint() returned
    gePrev,          \* result of the get_endpoint() before that one
    geWaited,        \* the running get_endpoint() had to await changed()
    geCallPub,       \* pubCount when the running get_endpoint() was called
    geRetClosed,     \* txDropped at the moment that get_endpoint() returned
    \* ---- DevTunnels and the management service ----
    persisted,       \* launcher_tunnel: the PersistedTunnel, or none
    remote,          \* the service's tunnel records, by id
    nextId,          \* id the service gives to the next created tunnel
    apc,             \* position inside start_new_launcher_tunnel
    preferred_name,  \* argument preferred_name: Option<String>
    use_random_name, \* argument / local use_random_name
    existing_tunnels,\* get_name_for_tunnel's listing
    placeholder_name,\* get_name_for_tunnel's generated candidate
    name,            \* create_tunnel's argument name
    tried_recycle,   \* create_tunnel's local tried_recycle
    recycle_list,    \* try_recycle_tunnel's listing
    recyclable,      \* id try_recycle_tunnel chose to delete
    tunnel,          \* id of the resolved tunnel
    portsLeft,       \* ports of the resolved tunnel still to be deleted
    endpointsLeft,   \* endpoints of the resolved tunnel still to be deleted
    result,          \* what the last start_new_launcher_tunnel returned
    spawned,         \* number of session managers constructed
    \* ---- history of the run (observations the properties read) ----
    starts,          \* number of start_new_launcher_tunnel calls begun
    path,            \* "reuse": persisted identity found, "new": none
    callPersisted,   \* persisted identity when the call began
    callStale,       \* its remote record did not exist when the call began
    lastGet,         \* the service's answer to this call's last get_tunnel
    createResp,      \* the service's answers to this call's create requests
    ctDeletes,       \* delete requests issued by this call's recycling
    recycleOutcome,  \* how this call's try_recycle_tunnel ended
    recycled,        \* the tunnel recycling asked to delete, as listed
    \* ---- Backoff on its own ----
    base_duration,   \* Backoff.base_duration, in seconds
    max_duration,    \* Backoff.max_duration, in seconds
    delay,           \* Duration the last next() returned, in seconds
    prevDelay,       \* Duration the next() before it returned (history)
    panicked,        \* a next() ended in an arithmetic-overflow panic
    \* ---- LookupAccessTokenProvider::refresh_token callers ----
    refreshPc,       \* position of each further caller of refresh_token
    refreshRet,      \* what each of these calls returned, and how
    \* ---- port operations on the relay ----
    portCall,        \* the port operation in progress and its port_number
    relayPorts       \* ports the RelayTunnelHost forwards

mvars == <<pc, close_tx, endpoint, rxChanged, txDropped, lockHolder, handle,
           failures, provider, initial_token, access_token, callerPc,
           callerCtx, pubCount, lastPub, signalReleased, killCalls, killRet,
           unregisterCalls, geRet, geLatest, gePrev, geWaited,
           geCallPub, geRetClosed>>

service == <<remote, nextId>>
args == <<preferred_name, use_random_name>>
nameLocals == <<existing_tunnels, placeholder_name>>
createLocals == <<name, tried_recycle, recycle_list, recyclable>>
pruneLocals == <<tunnel, portsLeft, endpointsLeft>>
callObs == <<starts, path, callPersisted, callStale, lastGet>>
createObs == <<createResp, ctDeletes, recycleOutcome, recycled>>

avars == <<persisted, service, apc, args, nameLocals, createLocals,
           pruneLocals, result, spawned, callObs, createObs>>

bvars == <<base_duration, max_duration, delay, prevDelay, panicked>>
tvars == <<refreshPc, refreshRet>>

pvars == <<portCall, relayPorts>>

\* the state outside the background task, kill, get_endpoint and
\* start_new_launcher_tunnel
xvars == <<bvars, tvars, pvars>>

vars == <<mvars, avars, xvars>>

Min(a, b) == IF a < b THEN a ELSE b

(* ----------------------- EndpointState values ------------------------- *)

\* Option<Result<TunnelRelayTunnelEndpoint, WrappedError>>: None
NoValue == [kind |-> "none", n |-> 0]
\* Some(Ok(endpoint)) and Some(Err(e)) are [kind |-> "ok" or "err", n |-> k]
\* for the k-th send.
\* get_endpoint's Err(DevTunnelError("tunnel creation cancelled"))
Cancelled == [kind |-> "cancelled", n |-> 0]
\* no get_endpoint() has returned yet
NoResult == [kind |-> "noresult", n |-> 0]

\* The receiver half (endpoint_rx) lives as long as the manager does;
\* start_tunnel drops the manager when it returns Err.
RxAlive == callerPc # "dropped"

geVars == <<geRet, geLatest, gePrev, geWaited, geCallPub, geRetClosed>>
chan == <<endpoint, rxChanged, pubCount, lastPub>>
token == <<provider, initial_token, access_token>>
callerVars == <<callerPc, callerCtx, close_tx, signalReleased, killCalls,
                killRet, unregisterCalls, geVars>>
loopVars == <<pc, handle, failures, txDropped>>

(* ------------------- watch channel: endpoint_tx.send ------------------ *)

\* A send that overwrites nothing once the slot is Some (first-write-wins).
PublishFirstOnly(kind) ==
    IF RxAlive
    THEN /\ endpoint' = IF endpoint.kind = "none"
                        THEN [kind |-> kind, n |-> Min(pubCount + 1, MaxPub)]
                        ELSE endpoint
         /\ lastPub' = [kind |-> kind, n |-> Min(pubCount + 1, MaxPub)]
         /\ rxChanged' = TRUE
         /\ pubCount' = Min(pubCount + 1, MaxPub)
    ELSE UNCHANGED chan

\* endpoint_tx.send(Some(..)).ok(): the value replaces the slot and the
\* receiver is notified; with the receiver gone the send fails and the
\* error is discarded.
Publish(kind) ==
    IF RxAlive
    THEN /\ endpoint' = [kind |-> kind, n |-> Min(pubCount + 1, MaxPub)]
         /\ lastPub' = [kind |-> kind, n |-> Min(pubCount + 1, MaxPub)]
         /\ rxChanged' = TRUE
         /\ pubCount' = Min(pubCount + 1, MaxPub)
    ELSE UNCHANGED chan

(* ------------------------------ Backoff ------------------------------- *)

\* Backoff::next: self.failures += 1
BackoffNext == failures' = Min(failures + 1, MaxFailures)

\* A reset that leaves the counter as it is.
BackoffResetKeeps == failures' = failures

\* Backoff::reset
BackoffReset == failures' = 0

(* --------------------- spawn_tunnel: the task ------------------------- *)

\* the fail! macro: send the error, then backoff.delay()
Fail ==
    /\ Publish("err")
    /\ BackoffNext
    /\ pc' = "fail_delay"

\* access_token_provider.refresh_token() returned Ok
LoopRefreshOk ==
    /\ pc = "refresh"
    /\ access_token' = IF provider = "static" THEN "static"
                       ELSE IF initial_token THEN "initial" ELSE "lookup"
    /\ initial_token' = FALSE
    /\ pc' = "connect_lock"
    /\ UNCHANGED <<provider, chan, handle, failures, txDropped, lockHolder,
                   callerVars>>
    /\ UNCHANGED avars
    /\ UNCHANGED xvars

\* refresh_token() returned Err: only the remote lookup of the lookup
\* provider can fail
LoopRefreshErr ==
    /\ pc = "refresh"
    /\ provider = "lookup"
    /\ ~initial_token
    /\ Fail
    /\ UNCHANGED <<token, handle, txDropped, lockHolder, callerVars>>
    /\ UNCHANGED avars
    /\ UNCHANGED xvars

\* relay.lock().await
LoopConnectLock ==
    /\ pc = "connect_lock"
    /\ lockHolder = "none"
    /\ lockHolder' = "loop"
    /\ pc' = "connecting"
    /\ UNCHANGED <<token, chan, handle, failures, txDropped, callerVars>>
    /\ UNCHANGED avars
    /\ UNCHANGED xvars

\* relay.connect(&access_token) returned Ok(handle): the guard is released,
\* backoff.reset(), send Some(Ok(endpoint)), enter the select
LoopConnectOk ==
    /\ pc = "connecting"
    /\ lockHolder' = "none"
    /\ BackoffReset
    /\ Publish("ok")
    /\ handle' = "live"
    /\ pc' = "connected"
    /\ UNCHANGED <<token, txDropped, callerVars>>
    /\ UNCHANGED avars
    /\ UNCHANGED xvars

\* A loop that gives up on a connect error: it breaks and drops endpoint_tx.
LoopConnectErrGivesUp ==
    /\ pc = "connecting"
    /\ lockHolder' = "none"
    /\ pc' = "closed"
    /\ txDropped' = TRUE
    /\ UNCHANGED <<token, chan, handle, failures, callerVars>>
    /\ UNCHANGED avars
    /\ UNCHANGED xvars

\* relay.connect returned Err
LoopConnectErr ==
    /\ pc = "connecting"
    /\ lockHolder' = "none"
    /\ Fail
    /\ UNCHANGED <<token, handle, txDropped, callerVars>>
    /\ UNCHANGED avars
    /\ UNCHANGED xvars

\* the relay connection ends while the task waits in the select
ConnectionEnds ==
    /\ pc = "connected"
    /\ handle = "live"
    /\ \E how \in {"err", "eof"} : handle' = how
    /\ UNCHANGED <<pc, failures, txDropped, token, chan, lockHolder,
                   callerVars>>
    /\ UNCHANGED avars
    /\ UNCHANGED xvars

\* select branch 1, res = Err(e): fail!
LoopSelectHandleErr ==
    /\ pc = "connected"
    /\ handle = "err"
    /\ Fail
    /\ handle' = "none"
    /\ UNCHANGED <<token, txDropped, lockHolder, callerVars>>
    /\ UNCHANGED avars
    /\ UNCHANGED xvars

\* A loop that treats the graceful end of the connection like an error.
LoopSelectHandleEofFails ==
    /\ pc = "connected"
    /\ handle = "eof"
    /\ Fail
    /\ handle' = "none"
    /\ UNCHANGED <<token, txDropped, lockHolder, callerVars>>
    /\ UNCHANGED avars
    /\ UNCHANGED xvars

\* select branch 1, res = Ok: backoff.delay() without a send
LoopSelectHandleEof ==
    /\ pc = "connected"
    /\ handle = "eof"
    /\ BackoffNext
    /\ pc' = "eof_delay"
    /\ handle' = "none"
    /\ UNCHANGED <<token, chan, txDropped, lockHolder, callerVars>>
    /\ UNCHANGED avars
    /\ UNCHANGED xvars

\* select branch 2: close_rx.recv() completes (with None) once every
\* sender is gone; handle.close() is started
LoopSelectClose ==
    /\ pc = "connected"
    /\ ~close_tx
    /\ pc' = "closing"
    /\ UNCHANGED <<handle, failures, txDropped, token, chan, lockHolder,
                   callerVars>>
    /\ UNCHANGED avars
    /\ UNCHANGED xvars

\* handle.close().await returned; break; spawn_tunnel returns and drops
\* endpoint_tx
LoopCloseDone ==
    /\ pc = "closing"
    /\ pc' = "closed"
    /\ handle' = "closed"
    /\ txDropped' = TRUE
    /\ UNCHANGED <<failures, token, chan, lockHolder, callerVars>>
    /\ UNCHANGED avars
    /\ UNCHANGED xvars

\* tokio::time::sleep(..) of backoff.delay() elapsed; next iteration
LoopDelayDone ==
    /\ pc \in {"fail_delay", "eof_delay"}
    /\ pc' = "refresh"
    /\ UNCHANGED <<handle, failures, txDropped, token, chan, lockHolder,
                   callerVars>>
    /\ UNCHANGED avars
    /\ UNCHANGED xvars

LoopStep ==
    \/ LoopRefreshOk
    \/ LoopRefreshErr
    \/ LoopConnectLock
    \/ LoopConnectOk
    \/ LoopConnectErr
    \/ LoopSelectHandleErr
    \/ LoopSelectHandleEof
    \/ LoopSelectClose
    \/ LoopCloseDone
    \/ LoopDelayDone

(* --------------------------- get_endpoint ----------------------------- *)

\* get_endpoint returns v to its caller. In start_tunnel an Ok makes the
\* ActiveTunnel (the user task owns the manager from then on) and an Err
\* leads to manager.kill().
GeReturn(v) ==
    /\ geRet' = v
    /\ geLatest' = lastPub
    /\ gePrev' = geRet
    /\ geRetClosed' = txDropped
    /\ IF callerCtx = "start"
       THEN IF v.kind = "ok"
            THEN callerPc' = "idle" /\ callerCtx' = "user"
            ELSE callerPc' = "kill_take" /\ UNCHANGED callerCtx
       ELSE callerPc' = "idle" /\ UNCHANGED callerCtx

\* A get_endpoint that asks changed() before it looks at the slot.
GetEndpointChangedFirst ==
    /\ callerPc = "ge_borrow"
    /\ IF txDropped /\ ~rxChanged
       THEN GeReturn(Cancelled) /\ UNCHANGED geWaited
       ELSE IF endpoint.kind # "none"
            THEN GeReturn(endpoint) /\ UNCHANGED geWaited
            ELSE /\ callerPc' = "ge_changed"
                 /\ geWaited' = TRUE
                 /\ UNCHANGED <<callerCtx, geRet, geLatest, gePrev,
                                geRetClosed>>
    /\ UNCHANGED <<geCallPub, loopVars, token, chan, lockHolder, close_tx,
                   signalReleased, killCalls, killRet, unregisterCalls>>
    /\ UNCHANGED avars
    /\ UNCHANGED xvars

\* if let Some(details) = &*self.endpoint_rx.borrow() { return ... }
GetEndpointBorrow ==
    /\ callerPc = "ge_borrow"
    /\ IF endpoint.kind # "none"
       THEN GeReturn(endpoint) /\ UNCHANGED geWaited
       ELSE /\ callerPc' = "ge_changed"
            /\ geWaited' = TRUE
            /\ UNCHANGED <<callerCtx, geRet, geLatest, gePrev, geRetClosed>>
    /\ UNCHANGED <<geCallPub, loopVars, token, chan, lockHolder, close_tx,
                   signalReleased, killCalls, killRet, unregisterCalls>>
    /\ UNCHANGED avars
    /\ UNCHANGED xvars

\* self.endpoint_rx.changed().await: Ok once a send is unseen (it is marked
\* seen), Err once the sender is gone and nothing is unseen, pending
\* otherwise
GetEndpointChanged ==
    /\ callerPc = "ge_changed"
    /\ rxChanged \/ txDropped
    /\ IF rxChanged
       THEN /\ rxChanged' = FALSE
            /\ callerPc' = "ge_borrow"
            /\ UNCHANGED <<callerCtx, geRet, geLatest, gePrev, geRetClosed>>
       ELSE /\ GeReturn(Cancelled)
            /\ UNCHANGED rxChanged
    /\ UNCHANGED <<loopVars, token, endpoint, pubCount, lastPub, lockHolder,
                   close_tx, signalReleased, killCalls, killRet,
                   unregisterCalls, geWaited, geCallPub>>
    /\ UNCHANGED avars
    /\ UNCHANGED xvars

\* the user task calls get_endpoint (ActiveTunnel::get_port_uri)
CallGetEndpoint ==
    /\ callerPc = "idle"
    /\ callerPc' = "ge_borrow"
    /\ geWaited' = FALSE
    /\ geCallPub' = pubCount
    /\ UNCHANGED <<loopVars, token, chan, lockHolder, callerCtx, close_tx,
                   signalReleased, killCalls, killRet, unregisterCalls,
                   geRet, geLatest, gePrev, geRetClosed>>
    /\ UNCHANGED avars
    /\ UNCHANGED xvars

(* -------------------------------- kill -------------------------------- *)

\* kill returns r. start_tunnel discards it (.ok()), returns Err and drops
\* the manager with its endpoint_rx.
KillReturn(r) ==
    /\ killRet' = Append(killRet, r)
    /\ callerPc' = IF callerCtx = "start" THEN "dropped" ELSE "idle"

\* the user task calls kill (ActiveTunnel::close)
CallKill ==
    /\ callerPc = "idle"
    /\ killCalls < MaxKills
    /\ callerPc' = "kill_take"
    /\ UNCHANGED <<loopVars, token, chan, lockHolder, callerCtx, close_tx,
                   signalReleased, killCalls, killRet, unregisterCalls,
                   geVars>>
    /\ UNCHANGED avars
    /\ UNCHANGED xvars

\* A kill that drops a sender on every call (close_tx is not consumed).
KillTakeNotConsumed ==
    /\ callerPc = "kill_take"
    /\ killCalls' = killCalls + 1
    /\ close_tx' = FALSE
    /\ signalReleased' = signalReleased + 1
    /\ callerPc' = "kill_lock"
    /\ UNCHANGED <<loopVars, token, chan, lockHolder, callerCtx, killRet,
                   unregisterCalls, geVars>>
    /\ UNCHANGED avars
    /\ UNCHANGED xvars

\* if let Some(tx) = self.close_tx.take() { drop(tx); }
KillTake ==
    /\ callerPc = "kill_take"
    /\ killCalls' = killCalls + 1
    /\ close_tx' = FALSE
    /\ signalReleased' = IF close_tx THEN signalReleased + 1
                         ELSE signalReleased
    /\ callerPc' = "kill_lock"
    /\ UNCHANGED <<loopVars, token, chan, lockHolder, callerCtx, killRet,
                   unregisterCalls, geVars>>
    /\ UNCHANGED avars
    /\ UNCHANGED xvars

\* self.relay.lock().await
KillLock ==
    /\ callerPc = "kill_lock"
    /\ lockHolder = "none"
    /\ lockHolder' = "caller"
    /\ callerPc' = "kill_unreg"
    /\ UNCHANGED <<loopVars, token, chan, callerCtx, close_tx,
                   signalReleased, killCalls, killRet, unregisterCalls,
                   geVars>>
    /\ UNCHANGED avars
    /\ UNCHANGED xvars

\* .unregister().await returned Ok: go on to the drain
KillUnregisterOk ==
    /\ callerPc = "kill_unreg"
    /\ lockHolder' = "none"
    /\ unregisterCalls' = unregisterCalls + 1
    /\ callerPc' = "kill_drain"
    /\ UNCHANGED <<loopVars, token, chan, callerCtx, close_tx,
                   signalReleased, killCalls, killRet, geVars>>
    /\ UNCHANGED avars
    /\ UNCHANGED xvars

\* .unregister().await returned Err: map_err(..)? returns it at once
KillUnregisterErr ==
    /\ callerPc = "kill_unreg"
    /\ lockHolder' = "none"
    /\ unregisterCalls' = unregisterCalls + 1
    /\ KillReturn("err")
    /\ UNCHANGED <<loopVars, token, chan, callerCtx, close_tx,
                   signalReleased, killCalls, geVars>>
    /\ UNCHANGED avars
    /\ UNCHANGED xvars

\* while self.endpoint_rx.changed().await.is_ok() {}  then Ok(())
KillDrain ==
    /\ callerPc = "kill_drain"
    /\ rxChanged \/ txDropped
    /\ IF rxChanged
       THEN /\ rxChanged' = FALSE
            /\ UNCHANGED <<callerPc, killRet>>
       ELSE /\ KillReturn("ok")
            /\ UNCHANGED rxChanged
    /\ UNCHANGED <<loopVars, token, endpoint, pubCount, lastPub, lockHolder,
                   callerCtx, close_tx, signalReleased, killCalls,
                   unregisterCalls, geVars>>
    /\ UNCHANGED avars
    /\ UNCHANGED xvars

\* the steps of a kill() in progress
KillStep ==
    \/ KillTake
    \/ KillLock
    \/ KillUnregisterOk
    \/ KillUnregisterErr
    \/ KillDrain

\* the steps of a get_endpoint() in progress
GetEndpointStep ==
    \/ GetEndpointBorrow
    \/ GetEndpointChanged

(* -------------- add_port_tcp, add_port_direct, remove_port ------------ *)

\* the port_number a caller passes to the port operations
Ports == {8000}
PortOps == {"add_port_tcp", "add_port_direct", "remove_port"}
NoPortCall == [op |-> "none", port |-> 0]

\* the user task calls a port operation of its ActiveTunnel
CallPort ==
    /\ callerPc = "idle"
    /\ \E op \in PortOps, port_number \in Ports :
           portCall' = [op |-> op, port |-> port_number]
    /\ callerPc' = "port_lock"
    /\ UNCHANGED <<loopVars, token, chan, lockHolder, callerCtx, close_tx,
                   signalReleased, killCalls, killRet, unregisterCalls,
                   geVars>>
    /\ UNCHANGED avars
    /\ UNCHANGED <<bvars, tvars, relayPorts>>

\* A port operation that does not wait for the relay's lock.
PortLockNoWait ==
    /\ callerPc = "port_lock"
    /\ lockHolder' = "caller"
    /\ callerPc' = "port_op"
    /\ UNCHANGED <<loopVars, token, chan, callerCtx, close_tx,
                   signalReleased, killCalls, killRet, unregisterCalls,
                   geVars>>
    /\ UNCHANGED avars
    /\ UNCHANGED xvars

\* self.relay.lock().await
PortLock ==
    /\ callerPc = "port_lock"
    /\ lockHolder = "none"
    /\ lockHolder' = "caller"
    /\ callerPc' = "port_op"
    /\ UNCHANGED <<loopVars, token, chan, callerCtx, close_tx,
                   signalReleased, killCalls, killRet, unregisterCalls,
                   geVars>>
    /\ UNCHANGED avars
    /\ UNCHANGED xvars

\* add_port / add_port_raw / remove_port returned Ok: the guard is released
PortOpOk ==
    /\ callerPc = "port_op"
    /\ lockHolder' = "none"
    /\ relayPorts' = IF portCall.op = "remove_port"
                     THEN relayPorts \ {portCall.port}
                     ELSE relayPorts \cup {portCall.port}
    /\ portCall' = NoPortCall
    /\ callerPc' = "idle"
    /\ UNCHANGED <<loopVars, token, chan, callerCtx, close_tx,
                   signalReleased, killCalls, killRet, unregisterCalls,
                   geVars>>
    /\ UNCHANGED avars
    /\ UNCHANGED <<bvars, tvars>>

\* the relay operation returned Err: it is wrapped and returned, the guard
\* is released
PortOpErr ==
    /\ callerPc = "port_op"
    /\ lockHolder' = "none"
    /\ portCall' = NoPortCall
    /\ callerPc' = "idle"
    /\ UNCHANGED <<loopVars, token, chan, callerCtx, close_tx,
                   signalReleased, killCalls, killRet, unregisterCalls,
                   geVars>>
    /\ UNCHANGED avars
    /\ UNCHANGED <<bvars, tvars, relayPorts>>

\* the steps of a port operation in progress
PortStep ==
    \/ PortLock
    \/ PortOpOk
    \/ PortOpErr

(* ------------------------------- names -------------------------------- *)

\* A name is a sequence of characters. WordChars stands for the characters
\* the regex class \w matches (Unicode letters, digits, '_'; "e-acute" is a
\* two-byte letter); every other character of the model is outside it.
WordChars == {"a", "b", "g", "h", "A", "0", "1", "_", "e-acute",
              "v", "s", "c", "o", "d", "e", "r", "l", "u", "n"}
TwoByteChars == {"e-acute"}

\* number of bytes of one character in UTF-8
Utf8Len(c) == IF c \in TwoByteChars THEN 2 ELSE 1

\* str::len(): the length in bytes
RECURSIVE StrLen(_)
StrLen(n) == IF n = <<>> THEN 0 ELSE Utf8Len(Head(n)) + StrLen(Tail(n))

\* Regex ^([\w-]+)$
RegexMatch(n) ==
    /\ Len(n) >= 1
    /\ \A i \in 1..Len(n) : n[i] \in WordChars \cup {"-"}

\* is_valid_name(name).is_ok()
is_valid_name(n) ==
    IF StrLen(n) > MAX_TUNNEL_NAME_LENGTH THEN FALSE ELSE RegexMatch(n)

VSCODE_CLI_TUNNEL_TAG ==
    <<"v", "s", "c", "o", "d", "e", "-", "s", "e", "r", "v", "e", "r", "-",
      "l", "a", "u", "n", "c", "h", "e", "r">>

NameA == <<"a">>
NameB == <<"b">>
NameG == <<"g">>
NameH == <<"h">>
BadName == <<"a", " ">>

\* Option<String>
NoName == [some |-> FALSE, v |-> <<>>]
SomeName(n) == [some |-> TRUE, v |-> n]

\* values the caller passes as preferred_name
PrefOptions == {NoName, SomeName(NameA), SomeName(NameB), SomeName(BadName)}
\* values name_generator::generate_name returns (valid names)
GenNames == {NameA, NameG, NameH}
\* values the user types at prompt_placeholder
PromptNames == {NameA, NameG, BadName}

(* ----------------- PersistedTunnel and remote tunnels ----------------- *)

Ids == 1..MaxIds

\* launcher_tunnel.load(): None / Some(PersistedTunnel {name, id, cluster});
\* id stands for the locator (cluster and id)
NoTunnel == [some |-> FALSE, name |-> <<>>, id |-> 0]
PersistedTunnel(n, id) == [some |-> TRUE, name |-> n, id |-> id]

\* A record of the management service. hosts is
\* status.host_connection_count, -1 when the service reports none; the tags
\* of a tunnel are its name and VSCODE_CLI_TUNNEL_TAG.
Absent == [exists |-> FALSE, name |-> <<>>, hosts |-> -1, ports |-> {},
           endpoints |-> {}]
Tunnel(n, h, ps, es) == [exists |-> TRUE, name |-> n, hosts |-> h,
                         ports |-> ps, endpoints |-> es]
Tags(t) == {t.name, VSCODE_CLI_TUNNEL_TAG}

\* list_all_tunnels with tags and require_all_tags: the ids it returns
ListTagged(listing, tags) ==
    {id \in Ids : listing[id].exists /\ tags \subseteq Tags(listing[id])}

\* A closure that finds every name free.
IsNameFreeAlways(listing, n) == TRUE

\* get_name_for_tunnel's closure is_name_free over existing_tunnels
IsNameFree(listing, n) ==
    ~ \E id \in Ids : listing[id].exists /\ n \in Tags(listing[id])

\* .and_then(|s| s.host_connection_count).map(|c| c.get_count()).unwrap_or(0)
HostCount(t) == IF t.hosts < 0 THEN 0 ELSE t.hosts

\* A filter that also lets through tunnels with one active host.
RecyclableUpToOne(t) == HostCount(t) <= 1

\* try_recycle_tunnel's filter
Recyclable(t) == HostCount(t) = 0

Candidates(listing) ==
    {id \in Ids : listing[id].exists /\ Recyclable(listing[id])}

(* ------------------- start_new_launcher_tunnel ------------------------ *)

Pending == [status |-> "pending", err |-> "none", name |-> <<>>]
NoRecycled == [id |-> 0, listed |-> FALSE, hosts |-> -1]

\* return Err(..): kind is the error, n the tunnel name it carries
StartFail(kind, n) ==
    /\ apc' = "idle"
    /\ result' = [status |-> "err", err |-> kind, name |-> n]

\* where the pruning loops stand
PrunePc(ps, es) ==
    IF ps # {} THEN "prune_ports"
    ELSE IF es # {} THEN "prune_endpoints"
    ELSE "start_tunnel"

\* the caller invokes start_new_launcher_tunnel(preferred_name,
\* use_random_name); the match on launcher_tunnel.load()
CallStart ==
    /\ apc = "idle"
    /\ starts < MaxStarts
    /\ \E pref \in PrefOptions, rnd \in BOOLEAN :
         /\ preferred_name' = pref
         /\ use_random_name' = rnd
         /\ apc' = IF persisted.some
                   THEN IF pref.some /\ persisted.name # pref.v
                        THEN "rename_check"
                        ELSE "lookup"
                   ELSE "name_list"
    /\ starts' = starts + 1
    /\ path' = IF persisted.some THEN "reuse" ELSE "new"
    /\ callPersisted' = persisted
    /\ callStale' = (persisted.some /\ ~remote[persisted.id].exists)
    /\ lastGet' = "none"
    /\ result' = Pending
    /\ createResp' = <<>>
    /\ ctDeletes' = 0
    /\ recycleOutcome' = "none"
    /\ recycled' = NoRecycled
    \* the locals of the call start afresh
    /\ name' = <<>>
    /\ existing_tunnels' = [id \in Ids |-> Absent]
    /\ placeholder_name' = <<>>
    /\ tried_recycle' = FALSE
    /\ recycle_list' = [id \in Ids |-> Absent]
    /\ recyclable' = 0
    /\ tunnel' = 0
    /\ portsLeft' = {}
    /\ endpointsLeft' = {}
    /\ UNCHANGED <<persisted, service, spawned>>
    /\ UNCHANGED mvars
    /\ UNCHANGED xvars

\* check_is_name_free: list_all_tunnels failed
RenameCheckErr ==
    /\ apc = "rename_check"
    /\ StartFail("list_failed", <<>>)
    /\ UNCHANGED <<persisted, service, args, nameLocals, createLocals,
                   pruneLocals, spawned, callObs, createObs>>
    /\ UNCHANGED mvars
    /\ UNCHANGED xvars

\* A check_is_name_free that lets a taken name pass.
RenameCheckDoneIgnores ==
    /\ apc = "rename_check"
    /\ apc' = "rename_get"
    /\ UNCHANGED <<persisted, service, args, nameLocals, createLocals,
                   pruneLocals, result, spawned, callObs, createObs>>
    /\ UNCHANGED mvars
    /\ UNCHANGED xvars

\* check_is_name_free: the listing came back
RenameCheckDone ==
    /\ apc = "rename_check"
    /\ IF ListTagged(remote, {VSCODE_CLI_TUNNEL_TAG, preferred_name.v}) # {}
       THEN StartFail("name_in_use", preferred_name.v)
       ELSE apc' = "rename_get" /\ UNCHANGED result
    /\ UNCHANGED <<persisted, service, args, nameLocals, createLocals,
                   pruneLocals, spawned, callObs, createObs>>
    /\ UNCHANGED mvars
    /\ UNCHANGED xvars

\* get_tunnel(&persisted.locator()) before the tag update: Ok
RenameGetOk ==
    /\ apc = "rename_get"
    /\ remote[persisted.id].exists
    /\ lastGet' = "ok"
    /\ apc' = "rename_update"
    /\ UNCHANGED <<persisted, service, args, nameLocals, createLocals,
                   pruneLocals, result, spawned, starts, path, callPersisted,
                   callStale, createObs>>
    /\ UNCHANGED mvars
    /\ UNCHANGED xvars

\* get_tunnel before the tag update: not found / forbidden;
\* map_err(wrap(e, "failed to lookup tunnel"))?
RenameGetGone ==
    /\ apc = "rename_get"
    /\ ~remote[persisted.id].exists
    /\ lastGet' = "gone"
    /\ StartFail("lookup_failed", <<>>)
    /\ UNCHANGED <<persisted, service, args, nameLocals, createLocals,
                   pruneLocals, spawned, starts, path, callPersisted,
                   callStale, createObs>>
    /\ UNCHANGED mvars
    /\ UNCHANGED xvars

\* get_tunnel before the tag update: any other failure
RenameGetErr ==
    /\ apc = "rename_get"
    /\ lastGet' = "error"
    /\ StartFail("lookup_failed", <<>>)
    /\ UNCHANGED <<persisted, service, args, nameLocals, createLocals,
                   pruneLocals, spawned, starts, path, callPersisted,
                   callStale, createObs>>
    /\ UNCHANGED mvars
    /\ UNCHANGED xvars

\* update_tunnel(&full_tunnel).is_ok(): persisted.name = name; save
RenameUpdateOk ==
    /\ apc = "rename_update"
    /\ remote' = [remote EXCEPT ![persisted.id].name = preferred_name.v]
    /\ persisted' = [persisted EXCEPT !.name = preferred_name.v]
    /\ apc' = "lookup"
    /\ UNCHANGED <<nextId, args, nameLocals, createLocals, pruneLocals,
                   result, spawned, callObs, createObs>>
    /\ UNCHANGED mvars
    /\ UNCHANGED xvars

\* update_tunnel(&full_tunnel).is_ok(), then launcher_tunnel.save(..)?
\* fails: the tags are changed remotely, the stored identity is not
RenameSaveErr ==
    /\ apc = "rename_update"
    /\ remote' = [remote EXCEPT ![persisted.id].name = preferred_name.v]
    /\ StartFail("save_failed", <<>>)
    /\ UNCHANGED <<persisted, nextId, args, nameLocals, createLocals,
                   pruneLocals, spawned, callObs, createObs>>
    /\ UNCHANGED mvars
    /\ UNCHANGED xvars

\* A rename whose failed update_tunnel aborts the start.
RenameUpdateErrAborts ==
    /\ apc = "rename_update"
    /\ StartFail("update_failed", <<>>)
    /\ UNCHANGED <<persisted, service, args, nameLocals, createLocals,
                   pruneLocals, spawned, callObs, createObs>>
    /\ UNCHANGED mvars
    /\ UNCHANGED xvars

\* update_tunnel failed: nothing is saved, start goes on
RenameUpdateErr ==
    /\ apc = "rename_update"
    /\ apc' = "lookup"
    /\ UNCHANGED <<persisted, service, args, nameLocals, createLocals,
                   pruneLocals, result, spawned, callObs, createObs>>
    /\ UNCHANGED mvars
    /\ UNCHANGED xvars

\* A resolution whose port loop does not skip CONTROL_PORT.
ResolveAllPorts(id, ps, es) ==
    /\ tunnel' = id
    /\ portsLeft' = ps
    /\ endpointsLeft' = es
    /\ apc' = PrunePc(ps, es)

\* the tunnel is resolved: the pruning loops start over its ports (but
\* CONTROL_PORT) and endpoints
Resolve(id, ps, es) ==
    /\ tunnel' = id
    /\ portsLeft' = ps \ {CONTROL_PORT}
    /\ endpointsLeft' = es
    /\ apc' = PrunePc(ps \ {CONTROL_PORT}, es)

\* create_tunnel(n) is entered
BeginCreate(n) ==
    /\ name' = n
    /\ tried_recycle' = FALSE
    /\ apc' = "create"

\* get_tunnel with ports and host token: Ok(ft)
LookupOk ==
    /\ apc = "lookup"
    /\ remote[persisted.id].exists
    /\ lastGet' = "ok"
    /\ Resolve(persisted.id, remote[persisted.id].ports,
               remote[persisted.id].endpoints)
    /\ UNCHANGED <<persisted, service, args, nameLocals, createLocals,
                   result, spawned, starts, path, callPersisted, callStale,
                   createObs>>
    /\ UNCHANGED mvars
    /\ UNCHANGED xvars

\* get_tunnel: NOT_FOUND or FORBIDDEN: create_tunnel(&persisted.name)
LookupGone ==
    /\ apc = "lookup"
    /\ ~remote[persisted.id].exists
    /\ lastGet' = "gone"
    /\ BeginCreate(persisted.name)
    /\ UNCHANGED <<persisted, service, args, nameLocals, recycle_list,
                   recyclable, pruneLocals, result, spawned, starts, path,
                   callPersisted, callStale, createObs>>
    /\ UNCHANGED mvars
    /\ UNCHANGED xvars

\* get_tunnel: any other failure
LookupErr ==
    /\ apc = "lookup"
    /\ lastGet' = "error"
    /\ StartFail("lookup_failed", <<>>)
    /\ UNCHANGED <<persisted, service, args, nameLocals, createLocals,
                   pruneLocals, spawned, starts, path, callPersisted,
                   callStale, createObs>>
    /\ UNCHANGED mvars
    /\ UNCHANGED xvars

(* ------------------------ get_name_for_tunnel ------------------------- *)

\* list_all_server_tunnels failed
NameListErr ==
    /\ apc = "name_list"
    /\ StartFail("list_failed", <<>>)
    /\ UNCHANGED <<persisted, service, args, nameLocals, createLocals,
                   pruneLocals, spawned, callObs, createObs>>
    /\ UNCHANGED mvars
    /\ UNCHANGED xvars

\* list_all_server_tunnels answered; the preferred name is checked and the
\* first placeholder generated
NameListOk ==
    /\ apc = "name_list"
    /\ existing_tunnels' = remote
    /\ IF preferred_name.some /\ ~is_valid_name(preferred_name.v)
       THEN /\ StartFail("invalid_name", <<>>)
            /\ UNCHANGED <<use_random_name, placeholder_name, name,
                           tried_recycle>>
       ELSE IF preferred_name.some /\ IsNameFree(remote, preferred_name.v)
       THEN /\ BeginCreate(preferred_name.v)
            /\ UNCHANGED <<use_random_name, placeholder_name, result>>
       ELSE /\ use_random_name' = (use_random_name \/ preferred_name.some)
            /\ \E g \in GenNames : placeholder_name' = g
            /\ apc' = IF use_random_name \/ preferred_name.some
                      THEN "name_random"
                      ELSE "name_prompt"
            /\ UNCHANGED <<name, tried_recycle, result>>
    /\ UNCHANGED <<persisted, service, preferred_name, recycle_list,
                   recyclable, pruneLocals, spawned, callObs, createObs>>
    /\ UNCHANGED mvars
    /\ UNCHANGED xvars

\* while !is_name_free(&placeholder_name) { placeholder_name = generate }
NameRegenerate ==
    /\ apc = "name_random"
    /\ ~IsNameFree(existing_tunnels, placeholder_name)
    /\ \E g \in GenNames : placeholder_name' = g
    /\ UNCHANGED <<persisted, service, apc, args, existing_tunnels,
                   createLocals, pruneLocals, result, spawned, callObs,
                   createObs>>
    /\ UNCHANGED mvars
    /\ UNCHANGED xvars

\* the placeholder is free: return Ok(placeholder_name)
NameRandomDone ==
    /\ apc = "name_random"
    /\ IsNameFree(existing_tunnels, placeholder_name)
    /\ BeginCreate(placeholder_name)
    /\ UNCHANGED <<persisted, service, args, nameLocals, recycle_list,
                   recyclable, pruneLocals, result, spawned, callObs,
                   createObs>>
    /\ UNCHANGED mvars
    /\ UNCHANGED xvars

\* one round of the prompt loop: an invalid or taken answer is asked again
NamePrompt ==
    /\ apc = "name_prompt"
    /\ \E n \in PromptNames :
         IF is_valid_name(n) /\ IsNameFree(existing_tunnels, n)
         THEN BeginCreate(n)
         ELSE UNCHANGED <<name, tried_recycle, apc>>
    /\ UNCHANGED <<persisted, service, args, nameLocals, recycle_list,
                   recyclable, pruneLocals, result, spawned, callObs,
                   createObs>>
    /\ UNCHANGED mvars
    /\ UNCHANGED xvars

\* prompt_placeholder(..)? failed
NamePromptErr ==
    /\ apc = "name_prompt"
    /\ StartFail("prompt_failed", <<>>)
    /\ UNCHANGED <<persisted, service, args, nameLocals, createLocals,
                   pruneLocals, spawned, callObs, createObs>>
    /\ UNCHANGED mvars
    /\ UNCHANGED xvars

(* ---------------- create_tunnel and try_recycle_tunnel ---------------- *)

\* client.create_tunnel answered Ok(t): the PersistedTunnel is built,
\* the caller saves it and goes on with t, which has no ports or endpoints
CreateOk ==
    /\ apc = "create"
    /\ nextId <= MaxIds
    /\ remote' = [remote EXCEPT ![nextId] = Tunnel(name, 0, {}, {})]
    /\ nextId' = nextId + 1
    /\ createResp' = Append(createResp, "ok")
    /\ persisted' = PersistedTunnel(name, nextId)
    /\ Resolve(nextId, {}, {})
    /\ UNCHANGED <<args, nameLocals, createLocals, result, spawned, callObs,
                   ctDeletes, recycleOutcome, recycled>>
    /\ UNCHANGED mvars
    /\ UNCHANGED xvars

\* client.create_tunnel answered Ok(t) and the caller's
\* launcher_tunnel.save(Some(persisted))? fails: the tunnel exists
\* remotely, the stored identity is unchanged
CreateOkSaveErr ==
    /\ apc = "create"
    /\ nextId <= MaxIds
    /\ remote' = [remote EXCEPT ![nextId] = Tunnel(name, 0, {}, {})]
    /\ nextId' = nextId + 1
    /\ createResp' = Append(createResp, "ok")
    /\ StartFail("save_failed", <<>>)
    /\ UNCHANGED <<persisted, args, nameLocals, createLocals, pruneLocals,
                   spawned, callObs, ctDeletes, recycleOutcome, recycled>>
    /\ UNCHANGED mvars
    /\ UNCHANGED xvars

\* client.create_tunnel answered TOO_MANY_REQUESTS
CreateRateLimited ==
    /\ apc = "create"
    /\ createResp' = Append(createResp, "429")
    /\ IF ~tried_recycle
       THEN apc' = "recycle_list" /\ UNCHANGED result
       ELSE StartFail("quota", name)
    /\ UNCHANGED <<persisted, service, args, nameLocals, createLocals,
                   pruneLocals, spawned, callObs, ctDeletes, recycleOutcome,
                   recycled>>
    /\ UNCHANGED mvars
    /\ UNCHANGED xvars

\* A create_tunnel that treats every failed create as a rate limit.
CreateErrAsRateLimit ==
    /\ apc = "create"
    /\ createResp' = Append(createResp, "err")
    /\ IF ~tried_recycle
       THEN apc' = "recycle_list" /\ UNCHANGED result
       ELSE StartFail("quota", name)
    /\ UNCHANGED <<persisted, service, args, nameLocals, createLocals,
                   pruneLocals, spawned, callObs, ctDeletes, recycleOutcome,
                   recycled>>
    /\ UNCHANGED mvars
    /\ UNCHANGED xvars

\* client.create_tunnel failed otherwise: TunnelCreationFailed(name, {e:?})
CreateErr ==
    /\ apc = "create"
    /\ createResp' = Append(createResp, "err")
    /\ StartFail("create_failed", name)
    /\ UNCHANGED <<persisted, service, args, nameLocals, createLocals,
                   pruneLocals, spawned, callObs, ctDeletes, recycleOutcome,
                   recycled>>
    /\ UNCHANGED mvars
    /\ UNCHANGED xvars

\* try_recycle_tunnel: list_all_server_tunnels failed
RecycleListErr ==
    /\ apc = "recycle_list"
    /\ recycleOutcome' = "list_failed"
    /\ StartFail("list_failed", <<>>)
    /\ UNCHANGED <<persisted, service, args, nameLocals, createLocals,
                   pruneLocals, spawned, callObs, createResp, ctDeletes,
                   recycled>>
    /\ UNCHANGED mvars
    /\ UNCHANGED xvars

\* try_recycle_tunnel: no listed tunnel passes the filter: Ok(false), and
\* create_tunnel returns the quota error
RecycleListNone ==
    /\ apc = "recycle_list"
    /\ Candidates(remote) = {}
    /\ recycle_list' = remote
    /\ recycleOutcome' = "no_candidate"
    /\ StartFail("quota", name)
    /\ UNCHANGED <<persisted, service, args, nameLocals, name, tried_recycle,
                   recyclable, pruneLocals, spawned, callObs, createResp,
                   ctDeletes, recycled>>
    /\ UNCHANGED mvars
    /\ UNCHANGED xvars

\* try_recycle_tunnel: .choose(&mut rand::thread_rng()) picks a candidate
RecycleListChoose ==
    /\ apc = "recycle_list"
    /\ \E id \in Candidates(remote) : recyclable' = id
    /\ recycle_list' = remote
    /\ apc' = "recycle_delete"
    /\ UNCHANGED <<persisted, service, args, nameLocals, name, tried_recycle,
                   pruneLocals, result, spawned, callObs, createObs>>
    /\ UNCHANGED mvars
    /\ UNCHANGED xvars

\* meanwhile a host connects to, or leaves, a remote tunnel
HostChange ==
    /\ apc = "recycle_delete"
    /\ \E id \in Ids :
         /\ remote[id].exists
         /\ remote[id].hosts \in {0, 1}
         /\ remote' = [remote EXCEPT ![id].hosts = 1 - remote[id].hosts]
    /\ UNCHANGED <<persisted, nextId, apc, args, nameLocals, createLocals,
                   pruneLocals, result, spawned, callObs, createObs>>
    /\ UNCHANGED mvars
    /\ UNCHANGED xvars

\* what recycling asks the service to delete, as it was listed
RecycledNow ==
    [id |-> recyclable, listed |-> recycle_list[recyclable].exists,
     hosts |-> recycle_list[recyclable].hosts]

\* try_recycle_tunnel: delete_tunnel failed
RecycleDeleteErr ==
    /\ apc = "recycle_delete"
    /\ ctDeletes' = ctDeletes + 1
    /\ recycled' = RecycledNow
    /\ recycleOutcome' = "delete_failed"
    /\ StartFail("delete_failed", <<>>)
    /\ UNCHANGED <<persisted, service, args, nameLocals, createLocals,
                   pruneLocals, spawned, callObs, createResp>>
    /\ UNCHANGED mvars
    /\ UNCHANGED xvars

\* A recycle after which create_tunnel forgets that it recycled.
RecycleDeleteOkForgets ==
    /\ apc = "recycle_delete"
    /\ remote' = [remote EXCEPT ![recyclable] = Absent]
    /\ ctDeletes' = ctDeletes + 1
    /\ recycled' = RecycledNow
    /\ recycleOutcome' = "deleted"
    /\ apc' = "create"
    /\ UNCHANGED <<persisted, nextId, args, nameLocals, name, tried_recycle,
                   recycle_list, recyclable, pruneLocals, result, spawned,
                   callObs, createResp>>
    /\ UNCHANGED mvars
    /\ UNCHANGED xvars

\* try_recycle_tunnel: delete_tunnel succeeded: Ok(true);
\* tried_recycle = true; continue
RecycleDeleteOk ==
    /\ apc = "recycle_delete"
    /\ remote' = [remote EXCEPT ![recyclable] = Absent]
    /\ ctDeletes' = ctDeletes + 1
    /\ recycled' = RecycledNow
    /\ recycleOutcome' = "deleted"
    /\ tried_recycle' = TRUE
    /\ apc' = "create"
    /\ UNCHANGED <<persisted, nextId, args, nameLocals, name, recycle_list,
                   recyclable, pruneLocals, result, spawned, callObs,
                   createResp>>
    /\ UNCHANGED mvars
    /\ UNCHANGED xvars

(* ------------------------ pruning and hosting ------------------------- *)

\* delete_tunnel_port succeeded for one port of the loop
PrunePortOk ==
    /\ apc = "prune_ports"
    /\ \E p \in portsLeft :
         /\ remote' = [remote EXCEPT ![tunnel].ports = @ \ {p}]
         /\ portsLeft' = portsLeft \ {p}
         /\ apc' = PrunePc(portsLeft \ {p}, endpointsLeft)
    /\ UNCHANGED <<persisted, nextId, args, nameLocals, createLocals, tunnel,
                   endpointsLeft, result, spawned, callObs, createObs>>
    /\ UNCHANGED mvars
    /\ UNCHANGED xvars

\* delete_tunnel_port failed: map_err(wrap(e, "failed to delete port"))?
PrunePortErr ==
    /\ apc = "prune_ports"
    /\ StartFail("port_delete_failed", <<>>)
    /\ UNCHANGED <<persisted, service, args, nameLocals, createLocals,
                   pruneLocals, spawned, callObs, createObs>>
    /\ UNCHANGED mvars
    /\ UNCHANGED xvars

\* delete_tunnel_endpoints succeeded for one endpoint of the loop
PruneEndpointOk ==
    /\ apc = "prune_endpoints"
    /\ \E e \in endpointsLeft :
         /\ remote' = [remote EXCEPT ![tunnel].endpoints = @ \ {e}]
         /\ endpointsLeft' = endpointsLeft \ {e}
         /\ apc' = PrunePc(portsLeft, endpointsLeft \ {e})
    /\ UNCHANGED <<persisted, nextId, args, nameLocals, createLocals, tunnel,
                   portsLeft, result, spawned, callObs, createObs>>
    /\ UNCHANGED mvars
    /\ UNCHANGED xvars

\* delete_tunnel_endpoints failed
PruneEndpointErr ==
    /\ apc = "prune_endpoints"
    /\ StartFail("endpoint_delete_failed", <<>>)
    /\ UNCHANGED <<persisted, service, args, nameLocals, createLocals,
                   pruneLocals, spawned, callObs, createObs>>
    /\ UNCHANGED mvars
    /\ UNCHANGED xvars

\* start_tunnel: the manager is constructed (its task spawned) and the
\* first endpoint is Ok: Ok(ActiveTunnel {name: persisted.name, ..})
StartTunnelOk ==
    /\ apc = "start_tunnel"
    /\ spawned' = spawned + 1
    /\ apc' = "idle"
    /\ result' = [status |-> "ok", err |-> "none", name |-> persisted.name]
    /\ UNCHANGED <<persisted, service, args, nameLocals, createLocals,
                   pruneLocals, callObs, createObs>>
    /\ UNCHANGED mvars
    /\ UNCHANGED xvars

\* start_tunnel: the first endpoint is an error: kill, return Err(e)
StartTunnelErr ==
    /\ apc = "start_tunnel"
    /\ spawned' = spawned + 1
    /\ StartFail("connect_failed", <<>>)
    /\ UNCHANGED <<persisted, service, args, nameLocals, createLocals,
                   pruneLocals, callObs, createObs>>
    /\ UNCHANGED mvars
    /\ UNCHANGED xvars

(* ------------------------- Backoff on its own ------------------------- *)

\* number of values of the failures counter
U32Modulus == 2 ^ FailuresWidth

\* Option<Duration>
NoDuration == [some |-> FALSE, v |-> 0]
SomeDuration(d) == [some |-> TRUE, v |-> d]

\* Duration::checked_mul(u32): None when the product overflows
CheckedMul(d, k) ==
    IF d * k > DurationLimit THEN NoDuration ELSE SomeDuration(d * k)

\* Option::unwrap_or
UnwrapOr(o, x) == IF o.some THEN o.v ELSE x

\* what Backoff::next returns once failures has become f
NextDuration(f) ==
    Min(UnwrapOr(CheckedMul(base_duration, f), max_duration), max_duration)

\* Backoff::next in a build without overflow checks: self.failures += 1
\* wraps
BackoffNextCall ==
    /\ ~panicked
    /\ failures' = (failures + 1) % U32Modulus
    /\ delay' = NextDuration((failures + 1) % U32Modulus)
    /\ prevDelay' = delay
    /\ UNCHANGED <<base_duration, max_duration, panicked, tvars, pvars>>
    /\ UNCHANGED <<pc, close_tx, chan, txDropped, lockHolder, handle, token,
                   callerPc, callerCtx, signalReleased, killCalls, killRet,
                   unregisterCalls, geVars>>
    /\ UNCHANGED avars

\* Backoff::next in a build with overflow checks: self.failures += 1
\* panics at the largest value
BackoffNextPanics ==
    /\ ~panicked
    /\ failures = U32Modulus - 1
    /\ panicked' = TRUE
    /\ UNCHANGED <<base_duration, max_duration, delay, prevDelay, tvars,
                   pvars>>
    /\ UNCHANGED mvars
    /\ UNCHANGED avars

\* Backoff::reset; the history of returned delays starts over
BackoffResetCall ==
    /\ ~panicked
    /\ failures' = 0
    /\ delay' = 0
    /\ prevDelay' = 0
    /\ UNCHANGED <<base_duration, max_duration, panicked, tvars, pvars>>
    /\ UNCHANGED <<pc, close_tx, chan, txDropped, lockHolder, handle, token,
                   callerPc, callerCtx, signalReleased, killCalls, killRet,
                   unregisterCalls, geVars>>
    /\ UNCHANGED avars

\* the Backoff that spawn_tunnel constructs, before any call
BQuiet ==
    /\ base_duration = BASE_SECS
    /\ max_duration = MAX_SECS
    /\ delay = 0
    /\ prevDelay = 0
    /\ panicked = FALSE

(* --------------- LookupAccessTokenProvider::refresh_token ------------- *)

\* further tasks that call refresh_token on the provider
Tasks == 1..MaxRefreshers

\* no call has returned; a returned value v with looked telling whether
\* the call made the remote get_tunnel
NoRet == [v |-> "none", looked |-> FALSE]

\* a task calls refresh_token
RefreshCall(t) ==
    /\ refreshPc[t] \in {"idle", "done"}
    /\ refreshPc' = [refreshPc EXCEPT ![t] = "take"]
    /\ UNCHANGED <<refreshRet, bvars, pvars>>
    /\ UNCHANGED mvars
    /\ UNCHANGED avars

\* A refresh_token that reads the initial token without taking it.
RefreshTakePeek(t) ==
    /\ refreshPc[t] = "take"
    /\ IF initial_token
       THEN /\ refreshRet' = [refreshRet EXCEPT
                                ![t] = [v |-> "initial", looked |-> FALSE]]
            /\ refreshPc' = [refreshPc EXCEPT ![t] = "done"]
       ELSE /\ refreshPc' = [refreshPc EXCEPT ![t] = "lookup"]
            /\ UNCHANGED refreshRet
    /\ UNCHANGED <<initial_token, bvars, pvars>>
    /\ UNCHANGED <<pc, close_tx, chan, txDropped, lockHolder, handle,
                   failures, provider, access_token, callerVars>>
    /\ UNCHANGED avars

\* if let Some(token) = self.initial_token.lock().unwrap().take(): the
\* lock and the take are one step of the task
RefreshTake(t) ==
    /\ refreshPc[t] = "take"
    /\ IF initial_token
       THEN /\ initial_token' = FALSE
            /\ refreshRet' = [refreshRet EXCEPT
                                ![t] = [v |-> "initial", looked |-> FALSE]]
            /\ refreshPc' = [refreshPc EXCEPT ![t] = "done"]
       ELSE /\ refreshPc' = [refreshPc EXCEPT ![t] = "lookup"]
            /\ UNCHANGED <<initial_token, refreshRet>>
    /\ UNCHANGED <<bvars, pvars>>
    /\ UNCHANGED <<pc, close_tx, chan, txDropped, lockHolder, handle,
                   failures, provider, access_token, callerVars>>
    /\ UNCHANGED avars

\* get_tunnel answered Ok(tunnel): Ok(get_host_token_from_tunnel(&tunnel))
RefreshLookupOk(t) ==
    /\ refreshPc[t] = "lookup"
    /\ refreshRet' = [refreshRet EXCEPT
                       ![t] = [v |-> "lookup", looked |-> TRUE]]
    /\ refreshPc' = [refreshPc EXCEPT ![t] = "done"]
    /\ UNCHANGED <<bvars, pvars>>
    /\ UNCHANGED mvars
    /\ UNCHANGED avars

\* get_tunnel failed: Err(wrap(e, "failed to lookup tunnel"))
RefreshLookupErr(t) ==
    /\ refreshPc[t] = "lookup"
    /\ refreshRet' = [refreshRet EXCEPT ![t] = [v |-> "err", looked |-> TRUE]]
    /\ refreshPc' = [refreshPc EXCEPT ![t] = "done"]
    /\ UNCHANGED <<bvars, pvars>>
    /\ UNCHANGED mvars
    /\ UNCHANGED avars

\* no further task has called refresh_token
TQuiet ==
    /\ refreshPc = [t \in Tasks |-> "idle"]
    /\ refreshRet = [t \in Tasks |-> NoRet]

\* no port operation is running and the relay forwards no port
PQuiet ==
    /\ portCall = NoPortCall
    /\ relayPorts = {}

XQuiet == BQuiet /\ TQuiet /\ PQuiet

(* --------------------------- specification ---------------------------- *)

\* ActiveTunnelManager::new has spawned the task and start_tunnel is about
\* to call manager.get_endpoint(); the provider is the static one
\* (start_existing_tunnel) or the lookup one holding the host token
\* (start_new_launcher_tunnel).
MInit ==
    /\ pc = "refresh"
    /\ close_tx = TRUE
    /\ endpoint = NoValue
    /\ rxChanged = FALSE
    /\ txDropped = FALSE
    /\ lockHolder = "none"
    /\ handle = "none"
    /\ failures = 0
    /\ provider \in {"static", "lookup"}
    /\ initial_token = (provider = "lookup")
    /\ access_token = "none"
    /\ callerPc = "ge_borrow"
    /\ callerCtx = "start"
    /\ pubCount = 0
    /\ lastPub = NoValue
    /\ signalReleased = 0
    /\ killCalls = 0
    /\ killRet = <<>>
    /\ unregisterCalls = 0
    /\ geRet = NoResult
    /\ geLatest = NoValue
    /\ gePrev = NoResult
    /\ geWaited = FALSE
    /\ geCallPub = 0
    /\ geRetClosed = FALSE

\* DevTunnels at rest: no start_new_launcher_tunnel is running
AQuiet ==
    /\ persisted = NoTunnel
    /\ remote = [id \in Ids |-> Absent]
    /\ nextId = 1
    /\ apc = "idle"
    /\ preferred_name = NoName
    /\ use_random_name = FALSE
    /\ existing_tunnels = [id \in Ids |-> Absent]
    /\ placeholder_name = <<>>
    /\ name = <<>>
    /\ tried_recycle = FALSE
    /\ recycle_list = [id \in Ids |-> Absent]
    /\ recyclable = 0
    /\ tunnel = 0
    /\ portsLeft = {}
    /\ endpointsLeft = {}
    /\ result = Pending
    /\ spawned = 0
    /\ starts = 0
    /\ path = "none"
    /\ callPersisted = NoTunnel
    /\ callStale = FALSE
    /\ lastGet = "none"
    /\ createResp = <<>>
    /\ ctDeletes = 0
    /\ recycleOutcome = "none"
    /\ recycled = NoRecycled

Init == MInit /\ AQuiet /\ XQuiet

MNext ==
    \/ LoopRefreshOk
    \/ LoopRefreshErr
    \/ LoopConnectLock
    \/ LoopConnectOk
    \/ LoopConnectErr
    \/ ConnectionEnds
    \/ LoopSelectHandleErr
    \/ LoopSelectHandleEof
    \/ LoopSelectClose
    \/ LoopCloseDone
    \/ LoopDelayDone
    \/ GetEndpointBorrow
    \/ GetEndpointChanged
    \/ CallGetEndpoint
    \/ CallKill
    \/ CallPort
    \/ PortLock
    \/ PortOpOk
    \/ PortOpErr
    \/ KillTake
    \/ KillLock
    \/ KillUnregisterOk
    \/ KillUnregisterErr
    \/ KillDrain

Next == MNext

Spec == Init /\ [][Next]_vars

\* Every step of the background task and of a call in progress is
\* eventually taken: each await of the code completes, successfully or
\* not. The tokio Mutex hands its lock out in FIFO order, so a waiting
\* kill gets it; tokio::select! polls its ready branches in random order,
\* so a close branch that is ready again and again is eventually taken.
FairSpec ==
    /\ Init
    /\ [][Next]_vars
    /\ WF_vars(LoopStep)
    /\ WF_vars(KillStep)
    /\ SF_vars(KillLock)
    /\ WF_vars(PortStep)
    /\ SF_vars(PortLock)
    /\ SF_vars(LoopSelectClose)
    /\ WF_vars(GetEndpointStep)

(* ------------------ specification of the allocator -------------------- *)

\* The remote records the account may hold when start is called: tunnel 1
\* (the one a persisted identity points to, possibly with a forwarded
\* port and an endpoint left by an earlier host) and tunnel 2 (another
\* machine's), each present or not.
InitTunnel1 ==
    {Absent} \cup
    {Tunnel(n, h, pe[1], pe[2]) :
        n \in {NameA, NameB}, h \in {-1, 0, 1},
        pe \in {<<{}, {}>>, <<{CONTROL_PORT, 8080}, {"h1"}>>}}
InitTunnel2 ==
    {Absent} \cup
    {Tunnel(n, h, {}, {}) : n \in {NameB, NameG}, h \in {-1, 0, 1}}

AInit ==
    /\ \E t1 \in InitTunnel1, t2 \in InitTunnel2 :
         remote = [id \in Ids |-> IF id = 1 THEN t1
                                  ELSE IF id = 2 THEN t2 ELSE Absent]
    /\ nextId = 3
    /\ persisted \in {NoTunnel} \cup
                     {PersistedTunnel(n, 1) : n \in {NameA, NameB}}
    /\ (persisted.some /\ remote[1].exists) => remote[1].name = persisted.name
    /\ apc = "idle"
    /\ preferred_name = NoName
    /\ use_random_name = FALSE
    /\ existing_tunnels = [id \in Ids |-> Absent]
    /\ placeholder_name = <<>>
    /\ name = <<>>
    /\ tried_recycle = FALSE
    /\ recycle_list = [id \in Ids |-> Absent]
    /\ recyclable = 0
    /\ tunnel = 0
    /\ portsLeft = {}
    /\ endpointsLeft = {}
    /\ result = Pending
    /\ spawned = 0
    /\ starts = 0
    /\ path = "none"
    /\ callPersisted = NoTunnel
    /\ callStale = FALSE
    /\ lastGet = "none"
    /\ createResp = <<>>
    /\ ctDeletes = 0
    /\ recycleOutcome = "none"
    /\ recycled = NoRecycled

\* no session manager is being observed
MQuiet == MInit /\ provider = "lookup"

ANext ==
    \/ CallStart
    \/ RenameCheckErr
    \/ RenameCheckDone
    \/ RenameGetOk
    \/ RenameGetGone
    \/ RenameGetErr
    \/ RenameUpdateOk
    \/ RenameSaveErr
    \/ RenameUpdateErr
    \/ LookupOk
    \/ LookupGone
    \/ LookupErr
    \/ NameListErr
    \/ NameListOk
    \/ NameRegenerate
    \/ NameRandomDone
    \/ NamePrompt
    \/ NamePromptErr
    \/ CreateOk
    \/ CreateOkSaveErr
    \/ CreateRateLimited
    \/ CreateErr
    \/ RecycleListErr
    \/ RecycleListNone
    \/ RecycleListChoose
    \/ HostChange
    \/ RecycleDeleteErr
    \/ RecycleDeleteOk
    \/ PrunePortOk
    \/ PrunePortErr
    \/ PruneEndpointOk
    \/ PruneEndpointErr
    \/ StartTunnelOk
    \/ StartTunnelErr

AllocInit == AInit /\ MQuiet /\ XQuiet

AllocNext == ANext

AllocSpec == AllocInit /\ [][AllocNext]_vars

(* ------------------ specification of is_valid_name -------------------- *)

\* the manager with a lookup provider, nothing running
MStill ==
    /\ MInit
    /\ provider = "lookup"

\* the string of k characters c
Repeat(c, k) == [i \in 1..k |-> c]

\* characters the names under test are made of: letters, a digit, '_',
\* '-', a non-ASCII letter, and characters outside the class
NameAlphabet == {"a", "A", "0", "_", "-", "e-acute", " ", ","}

\* names handed to is_valid_name: every name of up to two characters, the
\* names around the length limit, and some longer mixed ones
ShortNames ==
    {<<>>} \cup {<<c>> : c \in NameAlphabet}
           \cup {<<c, d>> : c \in NameAlphabet, d \in NameAlphabet}
LongNames ==
    {Repeat("a", k) : k \in {19, 20, 21}}
    \cup {Repeat("e-acute", k) : k \in {10, 11}}
    \cup {Repeat("a", k) \o <<" ">> : k \in {19, 20}}
    \cup {<<"a", "b", "c", "-", "1", "0", "1">>, <<"a", "b", "c", " ", "d">>,
          <<"a", ",", "b">>}
TestNames == ShortNames \cup LongNames

\* is_valid_name(name) is called and returns
IsValidNameCall ==
    /\ apc = "idle"
    /\ result = Pending
    /\ result' = IF is_valid_name(name)
                 THEN [status |-> "ok", err |-> "none", name |-> name]
                 ELSE [status |-> "err", err |-> "invalid_name",
                       name |-> name]
    /\ UNCHANGED <<persisted, service, apc, args, nameLocals, createLocals,
                   pruneLocals, spawned, callObs, createObs>>
    /\ UNCHANGED mvars
    /\ UNCHANGED xvars

NameInit ==
    /\ MStill
    /\ XQuiet
    /\ name \in TestNames
    /\ persisted = NoTunnel
    /\ remote = [id \in Ids |-> Absent]
    /\ nextId = 1
    /\ apc = "idle"
    /\ preferred_name = NoName
    /\ use_random_name = FALSE
    /\ existing_tunnels = [id \in Ids |-> Absent]
    /\ placeholder_name = <<>>
    /\ tried_recycle = FALSE
    /\ recycle_list = [id \in Ids |-> Absent]
    /\ recyclable = 0
    /\ tunnel = 0
    /\ portsLeft = {}
    /\ endpointsLeft = {}
    /\ result = Pending
    /\ spawned = 0
    /\ starts = 0
    /\ path = "none"
    /\ callPersisted = NoTunnel
    /\ callStale = FALSE
    /\ lastGet = "none"
    /\ createResp = <<>>
    /\ ctDeletes = 0
    /\ recycleOutcome = "none"
    /\ recycled = NoRecycled

NameNext == IsValidNameCall

NameSpec == NameInit /\ [][NameNext]_vars

(* --------------- specification of start_existing_tunnel --------------- *)

\* A start_existing_tunnel that stores the tunnel it was given as the
\* persisted identity.
StartExistingTunnelSaves ==
    /\ callerPc = "existing_call"
    /\ pc = "unspawned"
    /\ provider' = "static"
    /\ pc' = "refresh"
    /\ callerPc' = "ge_borrow"
    /\ spawned' = spawned + 1
    /\ persisted' = PersistedTunnel(NameG, 2)
    /\ UNCHANGED <<initial_token, access_token, chan, handle, failures,
                   txDropped, lockHolder, callerCtx, close_tx,
                   signalReleased, killCalls, killRet, unregisterCalls,
                   geVars>>
    /\ UNCHANGED <<service, apc, args, nameLocals, createLocals,
                   pruneLocals, result, callObs, createObs>>
    /\ UNCHANGED xvars

\* start_existing_tunnel up to start_tunnel's ActiveTunnelManager::new:
\* the details and the management client are built from the argument, the
\* provider is StaticAccessTokenProvider::new(tunnel.host_token), the task
\* is spawned and start_tunnel goes on to manager.get_endpoint()
StartExistingTunnel ==
    /\ callerPc = "existing_call"
    /\ pc = "unspawned"
    /\ provider' = "static"
    /\ pc' = "refresh"
    /\ callerPc' = "ge_borrow"
    /\ spawned' = spawned + 1
    /\ UNCHANGED <<initial_token, access_token, chan, handle, failures,
                   txDropped, lockHolder, callerCtx, close_tx,
                   signalReleased, killCalls, killRet, unregisterCalls,
                   geVars>>
    /\ UNCHANGED <<persisted, service, apc, args, nameLocals, createLocals,
                   pruneLocals, result, callObs, createObs>>
    /\ UNCHANGED xvars

\* a DevTunnels with or without a persisted identity, whose remote record
\* exists or not, on which start_existing_tunnel is called
ExistingInit ==
    /\ XQuiet
    /\ pc = "unspawned"
    /\ callerPc = "existing_call"
    /\ callerCtx = "start"
    /\ provider = "none"
    /\ initial_token = FALSE
    /\ access_token = "none"
    /\ close_tx = TRUE
    /\ endpoint = NoValue
    /\ rxChanged = FALSE
    /\ txDropped = FALSE
    /\ lockHolder = "none"
    /\ handle = "none"
    /\ failures = 0
    /\ pubCount = 0
    /\ lastPub = NoValue
    /\ signalReleased = 0
    /\ killCalls = 0
    /\ killRet = <<>>
    /\ unregisterCalls = 0
    /\ geRet = NoResult
    /\ geLatest = NoValue
    /\ gePrev = NoResult
    /\ geWaited = FALSE
    /\ geCallPub = 0
    /\ geRetClosed = FALSE
    /\ persisted \in {NoTunnel, PersistedTunnel(NameA, 1)}
    /\ \E t1 \in {Absent, Tunnel(NameA, 0, {CONTROL_PORT, 8080}, {"h1"})} :
         remote = [id \in Ids |-> IF id = 1 THEN t1 ELSE Absent]
    /\ nextId = 2
    /\ apc = "idle"
    /\ preferred_name = NoName
    /\ use_random_name = FALSE
    /\ existing_tunnels = [id \in Ids |-> Absent]
    /\ placeholder_name = <<>>
    /\ name = <<>>
    /\ tried_recycle = FALSE
    /\ recycle_list = [id \in Ids |-> Absent]
    /\ recyclable = 0
    /\ tunnel = 0
    /\ portsLeft = {}
    /\ endpointsLeft = {}
    /\ result = Pending
    /\ spawned = 0
    /\ starts = 0
    /\ path = "none"
    /\ callPersisted = NoTunnel
    /\ callStale = FALSE
    /\ lastGet = "none"
    /\ createResp = <<>>
    /\ ctDeletes = 0
    /\ recycleOutcome = "none"
    /\ recycled = NoRecycled

\* the session of start_existing_tunnel: its provider cannot fail
ExistingNext ==
    \/ StartExistingTunnel
    \/ LoopRefreshOk
    \/ LoopConnectLock
    \/ LoopConnectOk
    \/ LoopConnectErr
    \/ ConnectionEnds
    \/ LoopSelectHandleErr
    \/ LoopSelectHandleEof
    \/ LoopSelectClose
    \/ LoopCloseDone
    \/ LoopDelayDone
    \/ GetEndpointBorrow
    \/ GetEndpointChanged
    \/ CallGetEndpoint
    \/ CallKill
    \/ CallPort
    \/ PortLock
    \/ PortOpOk
    \/ PortOpErr
    \/ KillTake
    \/ KillLock
    \/ KillUnregisterOk
    \/ KillUnregisterErr
    \/ KillDrain

ExistingSpec == ExistingInit /\ [][ExistingNext]_vars

(* -------------------- specification of the Backoff -------------------- *)

\* durations Backoff::new is given: those of spawn_tunnel, and others that
\* make checked_mul overflow
BaseDurations == {BASE_SECS, 60}
MaxDurations == {MAX_SECS, 60}

BackoffInit ==
    /\ MStill
    /\ AQuiet
    /\ TQuiet
    /\ PQuiet
    /\ base_duration \in BaseDurations
    /\ max_duration \in MaxDurations
    /\ delay = 0
    /\ prevDelay = 0
    /\ panicked = FALSE

BNext ==
    \/ BackoffNextCall
    \/ BackoffNextPanics
    \/ BackoffResetCall

BackoffSpec == BackoffInit /\ [][BNext]_vars

(* ------------- specification of the lookup token provider ------------- *)

\* the provider of start_new_launcher_tunnel, holding the host token, is
\* called by the reconnect loop and by further tasks
TokenInit == MStill /\ AQuiet /\ XQuiet

TokenNext ==
    \/ LoopRefreshOk
    \/ LoopRefreshErr
    \/ LoopConnectLock
    \/ LoopConnectOk
    \/ LoopConnectErr
    \/ ConnectionEnds
    \/ LoopSelectHandleErr
    \/ LoopSelectHandleEof
    \/ LoopDelayDone
    \/ \E t \in Tasks : RefreshCall(t)
    \/ \E t \in Tasks : RefreshTake(t)
    \/ \E t \in Tasks : RefreshLookupOk(t)
    \/ \E t \in Tasks : RefreshLookupErr(t)

TokenSpec == TokenInit /\ [][TokenNext]_vars

(* ------------------- properties of the session manager ---------------- *)

KillPcs == {"kill_take", "kill_lock", "kill_unreg", "kill_drain"}
InKill == callerPc \in KillPcs
KillReturned == Len(killRet) >= 1
LoopClosed == pc = "closed"

\* C1: once a kill() has returned, with Ok or with an error, the
\* background loop has exited and nothing is published to EndpointState
\* any more.
C1_KillDrainsLoop ==
    [][KillReturned =>
         /\ LoopClosed
         /\ endpoint' = endpoint
         /\ pubCount' = pubCount]_vars

\* C2: once kill() is called, whatever the loop is doing, the loop
\* eventually reaches Closed and kill() eventually returns (every await
\* completing, successfully or not).
C2_KillTerminates ==
    /\ InKill ~> LoopClosed
    /\ InKill ~> ~InKill

\* C3 as stated: a second kill(), after the first returned, releases no
\* second signal, performs no further operation on the relay session
\* and returns without error.
C3_SecondKillIsNoOp ==
    /\ signalReleased <= 1
    /\ killCalls = 2 => unregisterCalls <= 1
    /\ Len(killRet) = 2 => killRet[2] = "ok"

\* C3 as amended: the shutdown signal is released exactly once, by the
\* first kill(), which consumes the sender; a second kill() releases
\* nothing and leaves EndpointState alone, but it calls unregister on the
\* relay session again (and returns that call's error); when the first
\* kill() returned Ok the loop is closed, so the second one finds the
\* channel closed with nothing unseen and its drain does not wait.
C3_SecondKill ==
    /\ signalReleased <= 1
    /\ killCalls >= 1 => (signalReleased = 1 /\ ~close_tx)
    /\ Len(killRet) <= unregisterCalls
    /\ unregisterCalls <= killCalls
    /\ (killCalls >= 2 /\ killRet[1] = "ok") =>
         /\ LoopClosed
         /\ txDropped
         /\ ~rxChanged
         /\ endpoint = lastPub

\* C3 witness: a second kill() has returned after a first that returned Ok.
C3_Witness ==
    /\ Len(killRet) = 2
    /\ killRet[1] = "ok"
    /\ killRet[2] = "ok"

\* C4: EndpointState is a last-write-wins single slot: after N >= 1
\* sends the slot holds the N-th value and is never None again; a
\* get_endpoint() called then does not wait and returns the latest value,
\* and successive results never go back to an older value.
C4_LastWriteWins ==
    /\ pubCount >= 1 => (endpoint = lastPub /\ endpoint.kind # "none")
    /\ geRet.kind \in {"ok", "err"} => geRet = geLatest
    /\ geWaited => geCallPub = 0
    /\ (gePrev.kind \in {"ok", "err"} /\ geRet.kind \in {"ok", "err"})
         => gePrev.n <= geRet.n

\* C4 witness: a get_endpoint() called after two or more sends, none of
\* which the reader had polled for, has returned the latest of them.
C4_Witness ==
    /\ callerPc = "idle"
    /\ geCallPub >= 2
    /\ gePrev.n = 1
    /\ geRet.n >= 3
    /\ geRet = lastPub

Returned == apc = "idle" /\ result.status # "pending"
QuotaError == result = [status |-> "err", err |-> "quota", name |-> name]
CreationError ==
    result = [status |-> "err", err |-> "create_failed", name |-> name]

\* some listed tunnel carries the name n
NameCarried(listing, n) ==
    \E id \in Ids : listing[id].exists /\ listing[id].name = n

\* C6: when start runs with a persisted identity whose remote record is
\* gone (the lookup answers not-found or forbidden), whatever the
\* preferred name, it does not fail with a lookup error, and a successful
\* start has created a tunnel under the persisted name and saved its id
\* under the unchanged name.
C6_StaleIdentityRecreated ==
    (callStale /\ lastGet = "gone" /\ Returned) =>
        /\ result.err # "lookup_failed"
        /\ result.status = "ok" =>
             /\ persisted.some
             /\ persisted.name = callPersisted.name
             /\ persisted.id # callPersisted.id
             /\ remote[persisted.id].exists
             /\ remote[persisted.id].name = callPersisted.name

\* C7: one create_tunnel call issues at most two create requests and at
\* most one delete; after a rate limit followed by a success it has
\* deleted the idle tunnel it chose and returns the created tunnel; a
\* second rate limit is not retried. (When the identity cannot be saved
\* afterwards, the start fails and nothing is said about what is stored.)
C7_RecycleAtMostOnce ==
    /\ Len(createResp) <= 2
    /\ ctDeletes <= 1
    /\ createResp = <<"429", "ok">> =>
         /\ ctDeletes = 1
         /\ recycleOutcome = "deleted"
         /\ ~remote[recycled.id].exists
         /\ result.err # "save_failed" =>
              /\ persisted = PersistedTunnel(name, tunnel)
              /\ remote[tunnel].exists
              /\ remote[tunnel].name = name
    /\ createResp = <<"429", "429">> => (Returned /\ QuotaError)

\* C7 witness: a start whose create was rate limited once, recycled an
\* idle tunnel and then succeeded.
C7_Witness ==
    /\ createResp = <<"429", "ok">>
    /\ Returned
    /\ result.status = "ok"
    /\ recycled.hosts = 0

\* C8 as stated: after a rate limit, no recyclable tunnel or a retried
\* create that fails for whatever reason gives the quota error naming the
\* tunnel; another failure of the first create is returned at once as a
\* creation error, without a recycle attempt.
C8_QuotaAfterFailedRetry ==
    /\ recycleOutcome = "no_candidate" => QuotaError
    /\ (Len(createResp) = 2 /\ createResp[2] # "ok") => QuotaError
    /\ createResp = <<"err">> =>
         (CreationError /\ recycleOutcome = "none" /\ ctDeletes = 0)

\* C8 as amended: after a rate limit, no recyclable tunnel or a retried
\* create that is rate limited again gives the quota error naming the
\* tunnel; a retried create that fails otherwise gives the creation error
\* naming the tunnel; another failure of the first create is returned at
\* once as a creation error, without a recycle attempt.
C8_QuotaOrCreationError ==
    /\ recycleOutcome = "no_candidate" => QuotaError
    /\ createResp = <<"429", "429">> => QuotaError
    /\ createResp = <<"429", "err">> => CreationError
    /\ createResp = <<"err">> =>
         (CreationError /\ recycleOutcome = "none" /\ ctDeletes = 0)

\* C8 witness: the retried create failed with an error that is no rate
\* limit.
C8_Witness ==
    /\ createResp = <<"429", "err">>
    /\ Returned
    /\ recycleOutcome = "deleted"

C10_NameAllocation ==
    (path = "new" /\ preferred_name.some /\ is_valid_name(preferred_name.v))
    =>
        /\ result.err \notin {"invalid_name", "name_in_use", "prompt_failed"}
        /\ name # <<>> =>
             IF NameCarried(existing_tunnels, preferred_name.v)
             THEN /\ name # preferred_name.v
                  /\ ~NameCarried(existing_tunnels, name)
             ELSE name = preferred_name.v
        /\ persisted.some => persisted.name = name
        /\ result.status = "ok" => (persisted.some /\ result.name = name)

\* C10 witness: a start with a taken preferred name has succeeded under
\* another name.
C10_Witness ==
    /\ path = "new"
    /\ preferred_name.some
    /\ is_valid_name(preferred_name.v)
    /\ NameCarried(existing_tunnels, preferred_name.v)
    /\ Returned
    /\ result.status = "ok"
    /\ persisted.name # preferred_name.v

\* the preferred name is carried by a product-tagged tunnel of the service
PreferredTaken ==
    ListTagged(remote, {VSCODE_CLI_TUNNEL_TAG, preferred_name.v}) # {}

\* C11 as stated: no start is aborted because the preferred name is
\* already carried by a tunnel.
C11_NameTakenNeverAborts == result.err # "name_in_use"

\* C11 as amended: a taken preferred name leads to the random-name
\* fallback only when no persisted identity exists; when a persisted
\* identity exists and the preferred name differs from its name, the
\* check before the rename ends the start with the name-in-use error (or
\* the listing error) and nothing is renamed, created or stored.
C11_NameTakenFallbackOrAbort ==
    [][/\ (apc = "name_list" /\ apc' # "name_list" /\ preferred_name.some
           /\ is_valid_name(preferred_name.v) /\ PreferredTaken)
          => (apc' = "name_random" \/ result'.err = "list_failed")
       /\ (apc = "rename_check" /\ apc' # "rename_check" /\ PreferredTaken)
          => /\ apc' = "idle"
             /\ result'.err \in {"name_in_use", "list_failed"}
             /\ persisted' = persisted
             /\ remote' = remote
       /\ result'.err = "name_in_use"
          => /\ path' = "reuse"
             /\ preferred_name'.some
             /\ preferred_name'.v # callPersisted'.name]_vars

\* C11 witness: a start with a persisted identity and a different, taken
\* preferred name has returned the name-in-use error.
C11_Witness ==
    /\ Returned
    /\ path = "reuse"
    /\ preferred_name.some
    /\ PreferredTaken
    /\ result = [status |-> "err", err |-> "name_in_use",
                 name |-> preferred_name.v]
    /\ persisted = callPersisted

\* the tag update of the rename took effect on the remote record
RenameUpdated ==
    remote'[persisted.id].name = preferred_name.v

PrunePcs == {"prune_ports", "prune_endpoints"}
PruneErrors == {"port_delete_failed", "endpoint_delete_failed"}

\* C13: the session manager is constructed only once every port of the
\* resolved tunnel but the control port, and every endpoint record, has
\* been deleted; no step deletes a control port; a failed deletion ends
\* the start at once with that error, with no further deletion and no
\* session manager.
C13_PruneBeforeHosting ==
    [][/\ spawned' # spawned
          => /\ apc = "start_tunnel"
             /\ portsLeft = {}
             /\ endpointsLeft = {}
             /\ remote[tunnel].ports \subseteq {CONTROL_PORT}
             /\ remote[tunnel].endpoints = {}
       /\ \A id \in Ids :
            (remote[id].exists /\ remote'[id].exists
             /\ CONTROL_PORT \in remote[id].ports)
            => CONTROL_PORT \in remote'[id].ports
       /\ (apc \in PrunePcs /\ apc' \notin PrunePcs /\ apc' # "start_tunnel")
          => /\ apc' = "idle"
             /\ result'.err \in PruneErrors
             /\ remote' = remote
             /\ spawned' = spawned
       /\ (apc \in PrunePcs /\ remote' # remote)
          => /\ result' = result
             /\ \/ \E p \in portsLeft :
                     /\ apc = "prune_ports"
                     /\ p # CONTROL_PORT
                     /\ remote' = [remote EXCEPT ![tunnel].ports = @ \ {p}]
                \/ \E e \in endpointsLeft :
                     /\ apc = "prune_endpoints"
                     /\ remote' = [remote EXCEPT
                                     ![tunnel].endpoints = @ \ {e}]]_vars

\* C13 witness: a start has returned a hosted tunnel that had a forwarded
\* port and an endpoint record besides the control port; only the
\* control port is left.
C13_Witness ==
    /\ Returned
    /\ result.status = "ok"
    /\ spawned >= 1
    /\ path = "reuse"
    /\ remote[tunnel].ports = {CONTROL_PORT}
    /\ remote[tunnel].endpoints = {}

(* -------------------- properties of is_valid_name --------------------- *)

\* the characters A-Z, a-z, 0-9, '_' and '-' among those of the model
AsciiNameChars == (WordChars \ TwoByteChars) \cup {"-"}

\* is_valid_name has returned
NameChecked == result.status # "pending"

\* C14: a name is accepted exactly when it has 1 to 20 characters, all of
\* them among A-Z, a-z, 0-9, '_' and '-'.
C14_AsciiNamesOnly ==
    NameChecked =>
        (result.status = "ok" <=>
            /\ Len(name) >= 1
            /\ Len(name) <= MAX_TUNNEL_NAME_LENGTH
            /\ \A i \in 1..Len(name) : name[i] \in AsciiNameChars)

(* ------------------- properties of the reconnect loop ----------------- *)

\* the shutdown signal has been released (a close_tx sender was dropped)
ShutdownReleased == signalReleased >= 1

\* the step begins a token refresh / begins a relay connect attempt
StartsRefresh == pc # "refresh" /\ pc' = "refresh"
StartsConnect == pc # "connect_lock" /\ pc' = "connect_lock"

\* C15: once the shutdown signal has been released, the phase in flight
\* may finish, but the loop starts no further token refresh and no further
\* relay connect attempt.
C15_NoNewAttemptAfterShutdown ==
    [][ShutdownReleased => ~StartsRefresh /\ ~StartsConnect]_vars

\* the step is a failure of the loop: refresh_token() or relay.connect()
\* returned Err, or the live connection terminated with an error
FailureStep ==
    \/ pc = "refresh" /\ pc' \notin {"refresh", "connect_lock"}
    \/ pc = "connecting" /\ pc' \notin {"connecting", "connected"}
    \/ pc = "connected" /\ handle = "err" /\ pc' \notin {"connected", "closing"}

GracefulEofStep ==
    /\ pc = "connected"
    /\ handle = "eof"
    /\ pc' \notin {"connected", "closing"}

\* C17: on a graceful end of the live connection the loop sends nothing:
\* it counts the failure and sleeps the backoff delay, then starts the
\* next attempt; the channel keeps the Ok(endpoint) of the connection that
\* ended through the delay, and its value changes only when a refresh, a
\* connect or a live connection completes.
C17_GracefulEofPublishesNothing ==
    /\ [](pc = "eof_delay" /\ RxAlive =>
            endpoint.kind = "ok" /\ endpoint = lastPub)
    /\ [][/\ GracefulEofStep =>
               (/\ pc' = "eof_delay"
                /\ failures' = Min(failures + 1, MaxFailures)
                /\ UNCHANGED <<endpoint, lastPub, pubCount, rxChanged>>)
          /\ pc = "eof_delay" =>
               (/\ UNCHANGED <<endpoint, lastPub, pubCount>>
                /\ pc' \in {"eof_delay", "refresh"})
          /\ endpoint' # endpoint =>
               (/\ pc \in {"refresh", "connecting", "connected"}
                /\ pc' \in {"fail_delay", "connected"}
                /\ ~GracefulEofStep)
         ]_vars

\* C17 witness: the connection ended gracefully, the delay elapsed and the
\* channel still holds the Ok(endpoint) of the connection that ended.
C17_Witness ==
    /\ pc = "refresh"
    /\ handle = "none"
    /\ failures >= 1
    /\ endpoint.kind = "ok"
    /\ endpoint = lastPub
    /\ RxAlive

(* ---------------------- properties of the relay lock ------------------ *)

\* operations in progress: relay.connect in the task, a port operation or
\* unregister in the caller (all three on the RelayTunnelHost), and
\* handle.close() in the task (on the connection handle)
Connecting == pc = "connecting"
PortOperating == callerPc = "port_op"
Unregistering == callerPc = "kill_unreg"
ClosingHandle == pc = "closing"

InProgress ==
    {op \in {"connect", "port", "unregister", "close"} :
        \/ op = "connect" /\ Connecting
        \/ op = "port" /\ PortOperating
        \/ op = "unregister" /\ Unregistering
        \/ op = "close" /\ ClosingHandle}

InitialHolders ==
    {t \in Tasks : refreshRet[t].v = "initial"}
    \cup (IF access_token = "initial" THEN {0} ELSE {})

\* the step is a return of the task's / of the loop's refresh_token() with
\* the initial token
TaskGetsInitial(t) ==
    refreshPc[t] = "take" /\ refreshPc'[t] = "done"
LoopGetsInitial ==
    pc = "refresh" /\ pc' = "connect_lock" /\ access_token' = "initial"

\* C19: the initial token is handed out at most once. A call that finds
\* the slot full empties it and returns the token without a remote call;
\* the slot is never refilled, so every other call, of the loop or of
\* another task, makes the remote lookup and returns its token or its
\* error; the loop connects with the initial token on its first attempt
\* only.
C19_InitialTokenOnce ==
    /\ [](Cardinality(InitialHolders) <= 1)
    /\ []((pc \in {"connect_lock", "connecting"} /\ access_token = "initial")
            => pubCount = 0)
    /\ [][/\ initial_token' => initial_token
          /\ LoopGetsInitial => (initial_token /\ ~initial_token')
          /\ (pc = "refresh" /\ pc' = "connect_lock" /\ ~initial_token)
               => (access_token' = "lookup")
          /\ \A t \in Tasks :
               /\ TaskGetsInitial(t) =>
                    (/\ initial_token /\ ~initial_token'
                     /\ refreshRet'[t] = [v |-> "initial", looked |-> FALSE])
               /\ (refreshPc[t] = "take" /\ refreshPc'[t] # "take")
                    => (IF initial_token THEN TaskGetsInitial(t)
                        ELSE refreshPc'[t] = "lookup"
                             /\ refreshRet'[t] = refreshRet[t])
               /\ (refreshPc[t] = "lookup" /\ refreshPc'[t] # "lookup")
                    => (/\ refreshRet'[t].v \in {"lookup", "err"}
                        /\ refreshRet'[t].looked
                        /\ initial_token' = initial_token)
         ]_vars

\* C19 witness: of three callers one task got the initial token; the
\* other task and the loop made the remote lookup.
C19_Witness ==
    /\ refreshRet[1] = [v |-> "initial", looked |-> FALSE]
    /\ refreshRet[2] = [v |-> "lookup", looked |-> TRUE]
    /\ access_token = "lookup"
    /\ ~initial_token

(* ----------------------- properties of the Backoff -------------------- *)

\* C20: whatever the number of next() calls since the last reset, every
\* call returns a delay, the delay is min(base_duration * failures,
\* max_duration), it is at least the delay returned before it and at most
\* max_duration.
C20_DelaysNonDecreasing ==
    /\ ~panicked
    /\ delay <= max_duration
    /\ prevDelay <= delay
    /\ delay = Min(base_duration * failures, max_duration)

\* the step is the first backoff.delay() after a successful connect: the
\* live connection ended, with an error or gracefully
FirstDelayAfterConnect ==
    pc = "connected" /\ pc' \in {"fail_delay", "eof_delay"}

\* C21: a successful connect resets the backoff whatever the number of
\* failures before it, so the counter is 0 while the connection is live,
\* and the next() of the first delay after it counts one failure and
\* returns base_duration.
C21_BaseDelayAfterReset ==
    /\ [](pc = "connected" => failures = 0)
    /\ [][/\ (pc = "connecting" /\ pc' = "connected") => (failures' = 0)
          /\ FirstDelayAfterConnect =>
               (/\ failures' = 1
                /\ NextDuration(failures') = base_duration
                /\ base_duration = BASE_SECS)
         ]_vars

\* C21 witness: the loop sleeps the first delay after its third
\* publication, a successful connect that earlier failures preceded.
C21_Witness ==
    /\ pc = "eof_delay"
    /\ failures = 1
    /\ endpoint.kind = "ok"
    /\ endpoint.n >= 3
    /\ NextDuration(failures) = BASE_SECS

(* ------------------- properties of the stored names ------------------- *)

\* names the DevTunnels object has stored: the persisted identity's name
\* and the name tag of its remote record
StoredNames ==
    IF persisted.some
    THEN {persisted.name}
         \cup (IF remote[persisted.id].exists
               THEN {remote[persisted.id].name} ELSE {})
    ELSE {}

\* C22: every name stored in the persisted identity, and the name tag of
\* its remote record, passes is_valid_name.
C22_StoredNamesValid == \A n \in StoredNames : is_valid_name(n)

(* ---------------- properties of start_existing_tunnel ----------------- *)

\* C23: start_existing_tunnel and the session it starts leave the
\* persisted identity and the service's tunnel records as they were and
\* run no step of the allocator (no create, update, delete, list, port or
\* endpoint deletion by DevTunnels); the session's provider is the static
\* one, its refresh never fails and every connection attempt is made with
\* the host token the caller supplied.
C23_ExistingTunnelFrame ==
    /\ [](provider \in {"none", "static"})
    /\ [](access_token \in {"none", "static"})
    /\ [](pc \in {"connect_lock", "connecting"} => access_token = "static")
    /\ [][/\ UNCHANGED <<persisted, service, apc, args, nameLocals,
                         createLocals, pruneLocals, result, callObs,
                         createObs>>
          /\ (pc = "refresh" /\ pc' # pc) =>
               (pc' = "connect_lock" /\ access_token' = "static")
         ]_vars

\* C23 witness: start_existing_tunnel succeeded on a DevTunnels that holds
\* a persisted identity, and the session is making a later connection
\* attempt after a failure.
C23_Witness ==
    /\ callerCtx = "user"
    /\ pc = "connecting"
    /\ failures >= 1
    /\ access_token = "static"
    /\ persisted = PersistedTunnel(NameA, 1)
    /\ remote[1].exists
    /\ spawned = 1

====
